---- MODULE Spec2Model ----
(***************************************************************************)
(* Model of the hash tables of src/hash_tables.py: HashTableChaining       *)
(* (separate chaining) and HashTableLinearProbing (open addressing with    *)
(* linear probing), driven through insert / retrieve / remove.  The same   *)
(* call is applied to one table of each kind, as run_basic_tests does.     *)
(***************************************************************************)
EXTENDS Integers, Sequences, FiniteSets, TLC

\* ------------------------------------------------------------------ bounds
\* Largest table size the model constructs.
MaxSize == 2
\* Values are the integers 1..MaxValue.
MaxValue == 2

\* The hash function is applied to tables of size 1..MaxHashSize, to strings
\* of at most MaxStrLen characters and to the integers -MaxIntKey..MaxIntKey.
MaxHashSize == 7
MaxStrLen == 2
MaxIntKey == 4

\* ------------------------------------------------------------- data model
\* Python's None as a stored value / a returned result.
NoneValue == 0
Values == 1..MaxValue

\* A key is a str (its code points) or an int.  Keys of different type are
\* never equal in Python; one record shape keeps them comparable here.
StrKey(cs) == [kind |-> "str", chars |-> cs, val |-> 0]
IntKey(n) == [kind |-> "int", chars |-> <<>>, val |-> n]
\* Python's None in the keys array.
NoneKey == [kind |-> "none", chars |-> <<>>, val |-> 0]

\* "ab", 2 and -1.
Keys == {StrKey(<<97, 98>>), IntKey(2), IntKey(0 - 1)}

\* The keys the hash function alone is applied to: the strings over "a" and
\* "z" (the empty string included) and a range of integers around zero.
Chars == {97, 122}
HashKeys ==
    {StrKey(cs) : cs \in UNION {[1..l -> Chars] : l \in 0..MaxStrLen}}
        \cup {IntKey(i) : i \in (0 - MaxIntKey)..MaxIntKey}

\* Sizes handed to the constructor: zero and a negative one included.
SizeArgs == (0 - 1)..MaxSize

\* A Node of a chain: the chain itself is the sequence of its nodes.
Node(key, value) == [key |-> key, value |-> value]

VARIABLES
    size,       \* self.size of both tables
    buckets,    \* HashTableChaining.table: bucket index -> chain
    keys,       \* HashTableLinearProbing.keys
    table,      \* HashTableLinearProbing.table (the values)
    count,      \* HashTableLinearProbing.count
    last,       \* the last call and what it raised in the probing table
    model,      \* history: key -> value of the latest insert not yet removed
    everFull,   \* history: some probing insert has raised
    scen,       \* history: position in the fill / overflow / remove / refill scenario
    pre,        \* history: what the last call met: home index, chain position, stored
    under       \* which implementation the calls go to: "chaining", "probing" or "both"

vars == <<size, buckets, keys, table, count, last, model, everFull, scen, pre, under>>

\* ---------------------------------------------------------- hash function
RECURSIVE SumOrd(_)
SumOrd(cs) == IF cs = <<>> THEN 0 ELSE Head(cs) + SumOrd(Tail(cs))

\* Mutant of HashFunction: the remainder of an int key takes the key's sign.
HashFunction_Truncating(key, n) ==
    IF key.kind = "str" THEN SumOrd(key.chars) % n
    ELSE IF key.val < 0 THEN 0 - ((0 - key.val) % n) ELSE key.val % n

\* _hash_function for self.size = n > 0.
HashFunction(key, n) ==
    IF key.kind = "str" THEN SumOrd(key.chars) % n ELSE key.val % n

\* What evaluating table[_hash_function(key)] raises on a table of size n:
\* `% 0` divides by zero; for n < 0 the list is empty and every index is out of range.
IndexError(n) ==
    IF n = 0 THEN "ZeroDivisionError" ELSE IF n < 0 THEN "IndexError" ELSE "none"

\* ------------------------------------------------------ HashTableChaining
\* Mutant of ChainInsertWalk: no test for the key, the node goes to the tail.
RECURSIVE ChainInsertWalk_NoUpdate(_, _, _, _)
ChainInsertWalk_NoUpdate(chain, i, key, value) ==
    IF i = Len(chain) THEN Append(chain, Node(key, value))
    ELSE ChainInsertWalk_NoUpdate(chain, i + 1, key, value)

\* Mutant of ChainInsertWalk: a new node becomes the head, not the tail.
RECURSIVE ChainInsertWalk_Prepends(_, _, _, _)
ChainInsertWalk_Prepends(chain, i, key, value) ==
    IF chain[i].key = key THEN [chain EXCEPT ![i].value = value]
    ELSE IF i = Len(chain) THEN <<Node(key, value)>> \o chain
    ELSE ChainInsertWalk_Prepends(chain, i + 1, key, value)

\* The walk of insert over a non-empty chain, `i` the position of `current`.
RECURSIVE ChainInsertWalk(_, _, _, _)
ChainInsertWalk(chain, i, key, value) ==
    IF chain[i].key = key THEN [chain EXCEPT ![i].value = value]
    ELSE IF i = Len(chain) THEN Append(chain, Node(key, value))
    ELSE ChainInsertWalk(chain, i + 1, key, value)

ChainInsert(chain, key, value) ==
    IF chain = <<>> THEN <<Node(key, value)>>
    ELSE ChainInsertWalk(chain, 1, key, value)

\* retrieve: the value of the first node with the key, None when the chain ends.
RECURSIVE ChainRetrieve(_, _, _)
ChainRetrieve(chain, i, key) ==
    IF i > Len(chain) THEN NoneValue
    ELSE IF chain[i].key = key THEN chain[i].value
    ELSE ChainRetrieve(chain, i + 1, key)

\* Mutant of ChainRemove: the splice drops the tail (prev.next = None).
RECURSIVE ChainRemove_DropsTail(_, _, _)
ChainRemove_DropsTail(chain, i, key) ==
    IF i > Len(chain) THEN chain
    ELSE IF chain[i].key = key
         THEN IF i = 1 THEN Tail(chain) ELSE SubSeq(chain, 1, i - 1)
    ELSE ChainRemove_DropsTail(chain, i + 1, key)

\* Mutant of ChainRemove: only a matching head is unlinked.
ChainRemove_HeadOnly(chain, i, key) ==
    IF chain # <<>> /\ chain[1].key = key THEN Tail(chain) ELSE chain

\* Mutant of ChainRemove: every match is treated as the head, the bucket is
\* rebound to current.next and the nodes before the match are lost.
RECURSIVE ChainRemove_AlwaysRebinds(_, _, _)
ChainRemove_AlwaysRebinds(chain, i, key) ==
    IF i > Len(chain) THEN chain
    ELSE IF chain[i].key = key THEN SubSeq(chain, i + 1, Len(chain))
    ELSE ChainRemove_AlwaysRebinds(chain, i + 1, key)

\* remove: unlink the first node with the key (head: rebind the bucket;
\* otherwise prev.next = current.next); the chain as it is when none matches.
RECURSIVE ChainRemove(_, _, _)
ChainRemove(chain, i, key) ==
    IF i > Len(chain) THEN chain
    ELSE IF chain[i].key = key
         THEN SubSeq(chain, 1, i - 1) \o SubSeq(chain, i + 1, Len(chain))
    ELSE ChainRemove(chain, i + 1, key)

CInsert(b, n, key, value) ==
    IF IndexError(n) # "none" THEN b
    ELSE [b EXCEPT ![HashFunction(key, n)] = ChainInsert(@, key, value)]

CRetrieve(b, n, key) ==
    IF IndexError(n) # "none" THEN NoneValue
    ELSE ChainRetrieve(b[HashFunction(key, n)], 1, key)

CRemove(b, n, key) ==
    IF IndexError(n) # "none" THEN b
    ELSE [b EXCEPT ![HashFunction(key, n)] = ChainRemove(@, 1, key)]

\* ------------------------------------------------- HashTableLinearProbing
\* A probing table as a value: the three fields the operations touch.
PTable(ks, tb, c) == [keys |-> ks, table |-> tb, count |-> c]

\* Mutant of FindSlotFrom: stops at an empty slot only, never at the key's own slot.
RECURSIVE FindSlotFrom_EmptyOnly(_, _, _, _, _)
FindSlotFrom_EmptyOnly(ks, n, key, index, original_index) ==
    IF ks[index] = NoneKey THEN index
    ELSE LET next == (index + 1) % n
         IN  IF next = original_index THEN 0 - 1
             ELSE FindSlotFrom_EmptyOnly(ks, n, key, next, original_index)

\* Mutant of FindSlotFrom: no probing, the home slot is returned as it is.
FindSlotFrom_NoProbe(ks, n, key, index, original_index) == index

\* _find_slot's loop; -1 stands for its raise of "Hash table is full".
RECURSIVE FindSlotFrom(_, _, _, _, _)
FindSlotFrom(ks, n, key, index, original_index) ==
    IF ks[index] = NoneKey \/ ks[index] = key THEN index
    ELSE LET next == (index + 1) % n
         IN  IF next = original_index THEN 0 - 1
             ELSE FindSlotFrom(ks, n, key, next, original_index)

FindSlot(ks, n, key) ==
    FindSlotFrom(ks, n, key, HashFunction(key, n), HashFunction(key, n))

\* Mutant of InsertRaises: no count guard, only _find_slot's own raise.
InsertRaises_NoGuard(t, n, key) ==
    n <= 0 \/ FindSlot(t.keys, n, key) = 0 - 1

\* insert raises before touching the table when count >= size or _find_slot raises.
InsertRaises(t, n, key) ==
    \/ t.count >= n
    \/ FindSlot(t.keys, n, key) = 0 - 1

\* Mutant of PInsert: the test is inverted, count is incremented on an update only.
PInsert_CountsUpdates(t, n, key, value) ==
    IF InsertRaises(t, n, key) THEN t
    ELSE LET index == FindSlot(t.keys, n, key)
         IN  PTable([t.keys EXCEPT ![index] = key],
                    [t.table EXCEPT ![index] = value],
                    IF t.keys[index] = key THEN t.count + 1 ELSE t.count)

\* Mutant of PInsert: count is incremented on an update too.
PInsert_AlwaysCounts(t, n, key, value) ==
    IF InsertRaises(t, n, key) THEN t
    ELSE LET index == FindSlot(t.keys, n, key)
         IN  PTable([t.keys EXCEPT ![index] = key],
                    [t.table EXCEPT ![index] = value],
                    t.count + 1)

PInsert(t, n, key, value) ==
    IF InsertRaises(t, n, key) THEN t
    ELSE LET index == FindSlot(t.keys, n, key)
         IN  PTable([t.keys EXCEPT ![index] = key],
                    [t.table EXCEPT ![index] = value],
                    IF t.keys[index] # key THEN t.count + 1 ELSE t.count)

\* The number of slots _find_slot examines before it returns or raises,
\* `examined` counting the slot at `index`; n + 1 when it is still probing
\* after n slots.
RECURSIVE FindSlotExamined(_, _, _, _, _, _)
FindSlotExamined(ks, n, key, index, original_index, examined) ==
    IF examined > n THEN examined
    ELSE IF ks[index] = NoneKey \/ ks[index] = key THEN examined
    ELSE LET next == (index + 1) % n
         IN  IF next = original_index THEN examined
             ELSE FindSlotExamined(ks, n, key, next, original_index, examined + 1)

\* Mutant of ScanExamined: no test for the return to the home index.
RECURSIVE ScanExamined_NoWrapTest(_, _, _, _, _, _)
ScanExamined_NoWrapTest(ks, n, key, index, original_index, examined) ==
    IF examined > n THEN examined
    ELSE IF ks[index] = NoneKey THEN examined
    ELSE IF ks[index] = key THEN examined
    ELSE ScanExamined_NoWrapTest(ks, n, key, (index + 1) % n, original_index, examined + 1)

\* The number of slots the scan of retrieve and remove examines before it
\* ends, counted as in FindSlotExamined.
RECURSIVE ScanExamined(_, _, _, _, _, _)
ScanExamined(ks, n, key, index, original_index, examined) ==
    IF examined > n THEN examined
    ELSE IF ks[index] = NoneKey THEN examined
    ELSE IF ks[index] = key THEN examined
    ELSE LET next == (index + 1) % n
         IN  IF next = original_index THEN examined
             ELSE ScanExamined(ks, n, key, next, original_index, examined + 1)

\* The scan shared by retrieve and remove: the slot holding the key, or -1
\* when an empty slot or the home index is reached first.
RECURSIVE ScanFrom(_, _, _, _, _)
ScanFrom(ks, n, key, index, original_index) ==
    IF ks[index] = NoneKey THEN 0 - 1
    ELSE IF ks[index] = key THEN index
    ELSE LET next == (index + 1) % n
         IN  IF next = original_index THEN 0 - 1
             ELSE ScanFrom(ks, n, key, next, original_index)

Scan(ks, n, key) ==
    ScanFrom(ks, n, key, HashFunction(key, n), HashFunction(key, n))

PRetrieve(t, n, key) ==
    IF IndexError(n) # "none" THEN NoneValue
    ELSE IF Scan(t.keys, n, key) = 0 - 1 THEN NoneValue
    ELSE t.table[Scan(t.keys, n, key)]

\* Mutant of PRemove: the slot is cleared but count is not decremented.
PRemove_KeepsCount(t, n, key) ==
    IF IndexError(n) # "none" THEN t
    ELSE IF Scan(t.keys, n, key) = 0 - 1 THEN t
    ELSE LET index == Scan(t.keys, n, key)
         IN  PTable([t.keys EXCEPT ![index] = NoneKey],
                    [t.table EXCEPT ![index] = NoneValue],
                    t.count)

\* Mutant of PRemove: count is decremented whether or not the key was found.
PRemove_AlwaysCounts(t, n, key) ==
    IF IndexError(n) # "none" THEN t
    ELSE IF Scan(t.keys, n, key) = 0 - 1 THEN PTable(t.keys, t.table, t.count - 1)
    ELSE LET index == Scan(t.keys, n, key)
         IN  PTable([t.keys EXCEPT ![index] = NoneKey],
                    [t.table EXCEPT ![index] = NoneValue],
                    t.count - 1)

PRemove(t, n, key) ==
    IF IndexError(n) # "none" THEN t
    ELSE IF Scan(t.keys, n, key) = 0 - 1 THEN t
    ELSE LET index == Scan(t.keys, n, key)
         IN  PTable([t.keys EXCEPT ![index] = NoneKey],
                    [t.table EXCEPT ![index] = NoneValue],
                    t.count - 1)

\* ------------------------------------------------------------ construction
\* [None] * n: n slots for n > 0, the empty list for n <= 0.
Slots(n) == 0..(n - 1)

\* The current probing table.
P == PTable(keys, table, count)

Stored(key) == \E i \in Slots(size) : keys[i] = key

\* A call as `last` records it: its arguments and what the probing table raised.
Call(op, key, value, perr) ==
    [op |-> op, key |-> key, value |-> value, perr |-> perr]

\* The position of the node with `key` in a chain, 0 when no node has it.
RECURSIVE ChainPos(_, _, _)
ChainPos(chain, i, key) ==
    IF i > Len(chain) THEN 0
    ELSE IF chain[i].key = key THEN i
    ELSE ChainPos(chain, i + 1, key)

\* What a call with `key` meets in the tables as they are: the index
\* _hash_function returns (-1 when it raises), the position of the key in
\* its chain, and whether some slot of the probing table holds the key.
Met(key) ==
    IF IndexError(size) # "none"
    THEN [index |-> 0 - 1, cpos |-> 0, stored |-> FALSE]
    ELSE [index |-> HashFunction(key, size),
          cpos |-> ChainPos(buckets[HashFunction(key, size)], 1, key),
          stored |-> Stored(key)]

\* HashTableChaining(n) and HashTableLinearProbing(n): no check of n.
New(n) ==
    /\ size = n
    /\ buckets = [i \in Slots(n) |-> <<>>]
    /\ keys = [i \in Slots(n) |-> NoneKey]
    /\ table = [i \in Slots(n) |-> NoneValue]
    /\ count = 0
    /\ last = Call("new", NoneKey, NoneValue, "none")
    /\ model = [k \in Keys |-> NoneValue]
    /\ everFull = FALSE
    /\ scen = "fill"
    /\ pre = [index |-> 0 - 1, cpos |-> 0, stored |-> FALSE]

\* The calls go to the implementation `impl`: run_basic_tests and
\* compare_implementations take the implementations one after the other
\* with the same calls; "both" takes them side by side, call by call.
Drives(impl) == under = "both" \/ under = impl

\* Tables of a positive size, both implementations side by side.
Init == \E n \in 1..MaxSize : New(n) /\ under = "both"

\* Tables of any size the constructor is given.
InitCtor == \E n \in SizeArgs : New(n) /\ under = "both"

\* One implementation alone, of a positive size.
InitChaining == \E n \in 1..MaxSize : New(n) /\ under = "chaining"
InitProbing == \E n \in 1..MaxSize : New(n) /\ under = "probing"

\* ----------------------------------------------------------------- actions
\* The scenario of the capacity boundary: distinct inserts from the empty
\* table ("fill"), one remove of a stored key from the full table
\* ("removed"), one insert of a new key ("refilled"); "off" otherwise.
ScenAfterInsert(key) ==
    IF scen = "fill" /\ ~Stored(key) THEN "fill"
    ELSE IF scen = "removed" /\ ~Stored(key) THEN "refilled"
    ELSE "off"

ScenAfterRemove(key) ==
    IF scen = "fill" /\ count = size /\ Stored(key) THEN "removed" ELSE "off"

Insert(key, value) ==
    \E p \in {IF Drives("probing") THEN PInsert(P, size, key, value) ELSE P},
       perr \in {IF Drives("probing") /\ InsertRaises(P, size, key) THEN "full" ELSE "none"} :
        /\ buckets' = IF Drives("chaining") THEN CInsert(buckets, size, key, value) ELSE buckets
        /\ keys' = p.keys
        /\ table' = p.table
        /\ count' = p.count
        /\ last' = Call("insert", key, value, perr)
        /\ model' = IF IndexError(size) = "none" THEN [model EXCEPT ![key] = value] ELSE model
        /\ everFull' = (everFull \/ perr = "full")
        /\ scen' = ScenAfterInsert(key)
        /\ pre' = Met(key)
        /\ UNCHANGED <<size, under>>

Retrieve(key) ==
    /\ last' = Call("retrieve", key, NoneValue, IndexError(size))
    /\ pre' = Met(key)
    /\ UNCHANGED <<size, buckets, keys, table, count, model, everFull, scen, under>>

Remove(key) ==
    \E p \in {IF Drives("probing") THEN PRemove(P, size, key) ELSE P} :
        /\ buckets' = IF Drives("chaining") THEN CRemove(buckets, size, key) ELSE buckets
        /\ keys' = p.keys
        /\ table' = p.table
        /\ count' = p.count
        /\ last' = Call("remove", key, NoneValue, IndexError(size))
        /\ model' = IF IndexError(size) = "none" THEN [model EXCEPT ![key] = NoneValue] ELSE model
        /\ scen' = ScenAfterRemove(key)
        /\ pre' = Met(key)
        /\ UNCHANGED <<size, everFull, under>>

DoInsert == \E k \in Keys, v \in Values : Insert(k, v)
DoRetrieve == \E k \in Keys : Retrieve(k)
DoRemove == \E k \in Keys : Remove(k)

Next == DoInsert \/ DoRetrieve \/ DoRemove

\* A call of _hash_function(key) alone, on a table of a positive size.
HashCall(key) ==
    /\ size > 0
    /\ last' = Call("hash", key, NoneValue, "none")
    /\ pre' = [index |-> HashFunction(key, size), cpos |-> 0, stored |-> FALSE]
    /\ UNCHANGED <<size, buckets, keys, table, count, model, everFull, scen, under>>

DoHash == \E k \in HashKeys : HashCall(k)

\* Empty tables of the sizes the hash function is applied to.
InitHash == \E n \in 1..MaxHashSize : New(n) /\ under = "both"

Spec == Init /\ [][Next]_vars

SpecCtor == InitCtor /\ [][Next]_vars

\* The calls applied to a HashTableChaining alone, to a HashTableLinearProbing alone.
SpecChaining == InitChaining /\ [][Next]_vars
SpecProbing == InitProbing /\ [][Next]_vars

\* The hash function applied to every key of HashKeys in every size.
SpecHash == InitHash /\ [][DoHash]_vars

\* ------------------------------------------------------------------ claims
\* The slots of the probing table that hold `key`.
SlotsOf(ks, key) == {i \in Slots(size) : ks[i] = key}

\* C1: after an insert(k, v) that did not raise, retrieve(k) returns v, in
\* the chaining table and in the probing table, gaps left by removes included.
C1_RoundTrip ==
    last.op = "insert" =>
        /\ IndexError(size) = "none" => CRetrieve(buckets, size, last.key) = last.value
        /\ last.perr = "none" => PRetrieve(P, size, last.key) = last.value

\* The insert landed in a gap left by a remove, in front of an older copy of
\* its key, and shares its chain with another key.
C1_Witness ==
    /\ last.op = "insert"
    /\ last.perr = "none"
    /\ Cardinality(SlotsOf(keys, last.key)) = 2
    /\ Len(buckets[HashFunction(last.key, size)]) >= 2

\* C2: in the probing table insert(k, v) that succeeds, then insert(k, v')
\* with v' # v: the second call succeeds too, leaves count as it was, leaves
\* exactly one slot holding k, and retrieve(k) returns v'.
C2_UpdateProbing ==
    [][(/\ last.op = "insert"
        /\ last.perr = "none"
        /\ last'.op = "insert"
        /\ last'.key = last.key
        /\ last'.value # last.value)
       => /\ last'.perr = "none"
          /\ count' = count
          /\ Cardinality(SlotsOf(keys', last.key)) = 1
          /\ PRetrieve(P', size, last.key) = last'.value]_vars

\* C3: the chaining table is a finite map: retrieve(k) is the value of the
\* latest insert(k, v) not followed by remove(k), None when there is none.
C3_ChainingIsMap ==
    \A k \in Keys : CRetrieve(buckets, size, k) = model[k]

\* Size 1, all three keys collided in bucket 0, one of them was just removed.
C3_Witness ==
    /\ size = 1
    /\ last.op = "remove"
    /\ Len(buckets[0]) = 2
    /\ model[last.key] = NoneValue
    /\ \E k \in Keys : model[k] = MaxValue

\* C4: as long as no probing insert has raised, every retrieve(k) returns
\* the same result from the chaining table and from the probing table.
C4_Interchangeable ==
    (last.op = "retrieve" /\ ~everFull) =>
        CRetrieve(buckets, size, last.key) = PRetrieve(P, size, last.key)

\* C5: every key stored in some slot is reached by the scan from its home
\* index before an empty slot is, so retrieve returns a value for it.
C5_ProbeReachable ==
    \A k \in Keys : Stored(k) => Scan(keys, size, k) # 0 - 1

\* C6: from the empty probing table of size N, N inserts of distinct keys
\* succeed (each adds one to count), a further distinct key raises the
\* table-full error, and after the remove of a stored key the insert of a new
\* key succeeds and the key is retrievable.
C6_CapacityBoundary ==
    [][last'.op = "insert" =>
        /\ (scen = "fill" /\ scen' = "fill") =>
               IF count < size
               THEN last'.perr = "none" /\ count' = count + 1
               ELSE last'.perr = "full"
        /\ (scen = "removed" /\ scen' = "refilled") =>
               /\ last'.perr = "none"
               /\ PRetrieve(P', size, last'.key) = last'.value]_vars

\* The whole scenario ran on the largest table: filled, overflowed, one key
\* removed, a new key inserted.
C6_Witness ==
    /\ scen = "refilled"
    /\ size = MaxSize
    /\ everFull
    /\ count = size
    /\ last.op = "insert"
    /\ last.perr = "none"

\* C7: remove(k) raises nothing, a retrieve(k) right after it returns None,
\* and a second remove(k) right after it leaves both tables as they are.
C7_IdempotentRemove ==
    last.op = "remove" =>
        /\ last.perr = "none"
        /\ CRetrieve(buckets, size, last.key) = NoneValue
        /\ PRetrieve(P, size, last.key) = NoneValue
        /\ CRemove(buckets, size, last.key) = buckets
        /\ PRemove(P, size, last.key) = P

\* The remove took a node off a chain of two and cleared one of two slots
\* that held its key: the other slot still holds it.
C7_Witness ==
    /\ last.op = "remove"
    /\ Stored(last.key)
    /\ model[last.key] = NoneValue
    /\ Len(buckets[HashFunction(last.key, size)]) >= 1

\* C8: count is the number of slots whose key is not None, and 0 <= count <= size.
C8_CountInvariant ==
    /\ count = Cardinality({i \in Slots(size) : keys[i] # NoneKey})
    /\ 0 <= count
    /\ count <= size

\* The largest table is full and the last insert, of a key it stores, raised.
C8_Witness ==
    /\ count = size
    /\ size = MaxSize
    /\ last.op = "insert"
    /\ last.perr = "full"
    /\ Stored(last.key)

\* C9: when count >= size, insert(k, v) raises the table-full error for every
\* key, stored or not, and leaves keys, table and count as they were.
C9_FullInsertRaises ==
    [][(last'.op = "insert" /\ count >= size) =>
        /\ last'.perr = "full"
        /\ keys' = keys
        /\ table' = table
        /\ count' = count]_vars

\* An insert of a key the full table already stores has raised.
C9_Witness ==
    /\ last.op = "insert"
    /\ last.perr = "full"
    /\ count >= size
    /\ Stored(last.key)
    /\ PRetrieve(P, size, last.key) # last.value

\* C10: no table of a size <= 0 is ever produced by the constructors.
C10_PositiveSize == size > 0

\* The keys of the nodes of chain i, in chain order.
ChainKeys(b, i) == [p \in 1..Len(b[i]) |-> b[i][p].key]

\* Some node of some chain holds `key`.
InChains(b, key) == \E i \in Slots(size) : \E p \in 1..Len(b[i]) : b[i][p].key = key

\* C11: remove(k) of a key that no chain and no slot holds raises nothing
\* and leaves buckets, keys, table and count as they were; retrieve changes
\* no part of either table.
C11_MissingRemoveNoOp ==
    [][/\ (last'.op = "remove" /\ ~InChains(buckets, last'.key)) =>
              (last'.perr = "none" /\ buckets' = buckets)
       /\ (last'.op = "remove" /\ ~Stored(last'.key)) =>
              (last'.perr = "none" /\ keys' = keys /\ table' = table /\ count' = count)
       /\ last'.op = "retrieve" =>
              (buckets' = buckets /\ keys' = keys /\ table' = table /\ count' = count)]_vars

\* A remove of a key that neither table held, on tables that hold other keys.
C11_Witness ==
    /\ last.op = "remove"
    /\ pre.cpos = 0
    /\ ~pre.stored
    /\ count >= 1
    /\ \E k \in Keys : InChains(buckets, k)

\* The number a key is reduced from: the sum of its code points, or the int.
KeyNumber(key) == IF key.kind = "str" THEN SumOrd(key.chars) ELSE key.val

\* x modulo n as Python defines it for n > 0: the r in [0, n) with x = q * n + r.
FloorMod(x, n) ==
    CHOOSE r \in 0..(n - 1) :
        \E q \in (0 - MaxIntKey - 1)..(122 * MaxStrLen) : x = q * n + r

\* C12: for every size > 0, _hash_function(key) lies in [0, size) and is the
\* sum of the code points modulo size for a string (0 for the empty string)
\* and the key modulo size for an int, negative ints included.
C12_HashRange ==
    last.op = "hash" =>
        /\ pre.index \in Slots(size)
        /\ pre.index = FloorMod(KeyNumber(last.key), size)
        /\ last.key.chars = <<>> /\ last.key.kind = "str" => pre.index = 0

\* A negative int hashed into the last slot of the largest table.
C12_Witness ==
    /\ last.op = "hash"
    /\ last.key.kind = "int"
    /\ last.key.val < 0
    /\ size = MaxHashSize
    /\ pre.index = size - 1

\* C13: every node in the chain of bucket i has a key that hashes to i, and
\* no two nodes of a chain have the same key.
C13_ChainInvariant ==
    \A i \in Slots(size) :
        \A p \in 1..Len(buckets[i]) :
            /\ HashFunction(buckets[i][p].key, size) = i
            /\ \A q \in 1..Len(buckets[i]) : buckets[i][q].key = buckets[i][p].key => q = p

\* An insert met its key at the head of a chain that holds every key.
C13_Witness ==
    /\ last.op = "insert"
    /\ pre.cpos = 1
    /\ Len(buckets[pre.index]) = Cardinality(Keys)

\* C14: chaining insert(k, v) changes only the bucket hash(k): a key that is
\* not in the chain is appended at the tail of the unchanged chain; for a key
\* in the chain the keys and their order stay and only its value is replaced.
C14_ChainInsertEffect ==
    [][last'.op = "insert" =>
        LET k == last'.key
            h == HashFunction(k, size)
            old == buckets[h]
            new == buckets'[h]
        IN  /\ \A i \in Slots(size) \ {h} : buckets'[i] = buckets[i]
            /\ IF \A q \in 1..Len(old) : old[q].key # k
               THEN new = old \o <<[key |-> k, value |-> last'.value]>>
               ELSE /\ Len(new) = Len(old)
                    /\ \A q \in 1..Len(old) :
                        /\ new[q].key = old[q].key
                        /\ new[q].value =
                               IF old[q].key = k THEN last'.value ELSE old[q].value]_vars

\* An insert updated the middle node of a chain of three.
C14_Witness ==
    /\ last.op = "insert"
    /\ pre.cpos = 2
    /\ Len(buckets[pre.index]) = 3
    /\ buckets[pre.index][2] = [key |-> last.key, value |-> last.value]

\* C15: chaining remove(k) of a stored key changes only the bucket hash(k),
\* and the new chain is the old one with exactly the node of k deleted: the
\* other nodes keep their keys, values and order.
C15_ChainRemoveEffect ==
    [][(last'.op = "remove" /\ InChains(buckets, last'.key)) =>
        LET k == last'.key
            h == HashFunction(k, size)
            old == buckets[h]
            new == buckets'[h]
        IN  /\ \A i \in Slots(size) \ {h} : buckets'[i] = buckets[i]
            /\ \E p \in 1..Len(old) :
                /\ old[p].key = k
                /\ Len(new) = Len(old) - 1
                /\ \A q \in 1..Len(new) : new[q] = IF q < p THEN old[q] ELSE old[q + 1]]_vars

\* A remove unlinked the middle node of a chain of three.
C15_Witness ==
    /\ last.op = "remove"
    /\ pre.cpos = 2
    /\ Len(buckets[pre.index]) = 2

\* C16: across a call every slot of the probing table stays as it is or goes
\* Empty -> Occupied(k, v) by insert(k, v), Occupied(k, v) -> Occupied(k, v')
\* by insert(k, v'), or Occupied(k, v) -> Empty by remove(k); at most one slot
\* changes, and a slot's key is None exactly when its value is None.
C16_SlotTransitions ==
    [][last'.op \in {"insert", "retrieve", "remove"} =>
        /\ Cardinality({i \in Slots(size) : keys'[i] # keys[i] \/ table'[i] # table[i]}) <= 1
        /\ \A i \in Slots(size) :
            \/ keys'[i] = keys[i] /\ table'[i] = table[i]
            \/ /\ last'.op = "insert"
               /\ keys[i] = NoneKey
               /\ keys'[i] = last'.key
               /\ table'[i] = last'.value
            \/ /\ last'.op = "insert"
               /\ keys[i] = last'.key
               /\ keys'[i] = last'.key
               /\ table'[i] = last'.value
            \/ /\ last'.op = "remove"
               /\ keys[i] = last'.key
               /\ keys'[i] = NoneKey
               /\ table'[i] = NoneValue
        /\ \A i \in Slots(size) : keys'[i] = NoneKey <=> table'[i] = NoneValue]_vars

\* On the largest table an insert replaced the value of the one slot that
\* held its key.
C16_Witness ==
    /\ last.op = "insert"
    /\ last.perr = "none"
    /\ pre.stored
    /\ Cardinality(SlotsOf(keys, last.key)) = 1
    /\ size = MaxSize
    /\ PRetrieve(P, size, last.key) = last.value

\* The slots examined by _find_slot(key) and by the scan of retrieve(key) and
\* remove(key) on the table as it is.
FindSlotCost(key) ==
    FindSlotExamined(keys, size, key, HashFunction(key, size), HashFunction(key, size), 1)
ScanCost(key) ==
    ScanExamined(keys, size, key, HashFunction(key, size), HashFunction(key, size), 1)

\* C17: in every reachable state, a full table and a key that is not stored
\* included, _find_slot, retrieve and remove examine at most size slots and
\* then end.
C17_ProbeTerminates ==
    \A k \in Keys : FindSlotCost(k) <= size /\ ScanCost(k) <= size

\* A retrieve of a key the full largest table does not store went through
\* every slot, and _find_slot would too.
C17_Witness ==
    /\ last.op = "retrieve"
    /\ ~Stored(last.key)
    /\ count = size
    /\ size = MaxSize
    /\ ScanCost(last.key) = size
    /\ FindSlotCost(last.key) = size

\* C18: no key is held by more than one slot of the keys array, so count is
\* the number of distinct keys stored.
C18_KeyUnique ==
    /\ \A k \in Keys : Cardinality(SlotsOf(keys, k)) <= 1
    /\ count = Cardinality({k \in Keys : Stored(k)})

\* C19: after remove(k), retrieve(k) on the probing table returns None until
\* insert(k, _) is called again, whatever happens to other keys in between.
\* (model[k] is None exactly when no insert(k, _) was called since the last
\* remove(k), or ever.)
C19_RemovedStaysRemoved ==
    (last.op = "retrieve" /\ model[last.key] = NoneValue) =>
        PRetrieve(P, size, last.key) = NoneValue

\* C20: whenever insert passes its guard (count < size), _find_slot returns a
\* slot and never reaches its own raise; the only table-full error of an
\* insert is the one of the count guard.
C20_FindSlotNeverRaises ==
    /\ \A k \in Keys : count < size => FindSlot(keys, size, k) # 0 - 1
    /\ (last.op = "insert" /\ last.perr = "full") => count >= size

\* An insert passed the guard with one slot left, on the largest table, and
\* _find_slot found that slot away from the key's home index.
C20_Witness ==
    /\ last.op = "insert"
    /\ last.perr = "none"
    /\ ~pre.stored
    /\ count = size
    /\ size = MaxSize
    /\ keys[pre.index] # last.key

====
